---- MODULE Spec2Model ----
(***************************************************************************)
(* A model of tree_code.py: the split search find_best_split and the       *)
(* DecisionTree class (fit / predict / get_depth).                         *)
(*                                                                         *)
(* Numbers.  Feature values are integers.  Every quantity the code derives *)
(* from them by division (a threshold, a class proportion, a Gini score, a *)
(* positive-class rate) is kept as an exact fraction [n, d] in lowest      *)
(* terms, so that "<", "<=" and "==" on them are decided exactly.  On      *)
(* integer-valued features of this size the float64 results of the code    *)
(* are ordered the same way for the midpoints and the rates (rounding of   *)
(* a midpoint of two ADJACENT float64 values is outside this model).       *)
(*                                                                         *)
(* None.  An optional value is a sequence of length 0 (None, or a key      *)
(* that is absent from a dict) or 1 (the value).                           *)
(***************************************************************************)
EXTENDS Integers, Sequences, FiniteSets, TLC

VARIABLES
    feature_types,  \* self._feature_types
    tree,           \* self._tree, the root dict
    pc,             \* "idle", or "fit" while a fit call is on the stack
    args,           \* the arguments (X, y) of the fit call in progress
    stack,          \* the pending _fit_node calls of the fit in progress
    ret,            \* what the last completed method call returned or raised
    fbs_in,         \* the arguments of a direct find_best_split call
    fbs_out         \* what that call returned

vars == <<feature_types, tree, pc, args, stack, ret, fbs_in, fbs_out>>

-----------------------------------------------------------------------------
(* Bounds of the model. *)

MaxRows == 3        \* rows of a training matrix
MaxQueryRows == 1   \* rows of a matrix passed to predict
SplitMaxLen == 4    \* length of a vector passed to find_best_split directly
SplitMaxVal == 2    \* feature values 0..SplitMaxVal in such a vector

-----------------------------------------------------------------------------
(* Exact fractions. *)

RECURSIVE GCD(_, _)
GCD(a, b) == IF b = 0 THEN a ELSE GCD(b, a % b)

Abs(x) == IF x < 0 THEN -x ELSE x

\* n/d in lowest terms, d > 0.
Frac(n, d) ==
    LET g == GCD(Abs(n), d)
    IN  [n |-> n \div g, d |-> d \div g]

Whole(x) == [n |-> x, d |-> 1]

\* float("inf")
Inf == [n |-> 1, d |-> 0]

FAdd(a, b) == Frac(a.n * b.d + b.n * a.d, a.d * b.d)
FSub(a, b) == Frac(a.n * b.d - b.n * a.d, a.d * b.d)
FMul(a, b) == Frac(a.n * b.n, a.d * b.d)
FLess(a, b) == a.n * b.d < b.n * a.d
FLeq(a, b) == a.n * b.d <= b.n * a.d

-----------------------------------------------------------------------------
(* Array helpers (numpy indexing). *)

Range(s) == {s[i] : i \in 1..Len(s)}

\* a[mask] : the elements of a at the positions where mask holds, in order.
Take(a, Mask(_)) ==
    LET RECURSIVE T(_)
        T(i) == IF i > Len(a) THEN <<>>
                ELSE IF Mask(i) THEN <<a[i]>> \o T(i + 1) ELSE T(i + 1)
    IN  T(1)

\* (a == v).sum()
CountEq(a, v) == Cardinality({i \in 1..Len(a) : a[i] = v})

\* np.unique(a): the distinct values, ascending.
RECURSIVE SortedSeqOf(_)
SortedSeqOf(S) ==
    IF S = {} THEN <<>>
    ELSE LET m == CHOOSE x \in S : \A z \in S : x <= z
         IN  <<m>> \o SortedSeqOf(S \ {m})

Unique(a) == SortedSeqOf(Range(a))

\* np.argsort(a): the positions of a in ascending order of value, equal values
\* in index order.
RECURSIVE ArgSortFrom(_, _)
ArgSortFrom(a, left) ==
    IF left = {} THEN <<>>
    ELSE LET i == CHOOSE k \in left :
                    \A z \in left : a[k] < a[z] \/ (a[k] = a[z] /\ k <= z)
         IN  <<i>> \o ArgSortFrom(a, left \ {i})

ArgSort(a) == ArgSortFrom(a, 1..Len(a))

-----------------------------------------------------------------------------
(* find_best_split *)

\* The inner function gini(groups, classes): the size-weighted Gini impurity
\* of the groups, an empty group contributing nothing.
GiniWrongWeight(groups, classes) ==
    LET total == Len(groups[1]) + Len(groups[2])
        RECURSIVE Score(_, _)
        Score(group, cs) ==
            IF cs = <<>> THEN Whole(0)
            ELSE LET p == Frac(CountEq(group, Head(cs)), Len(group))
                 IN  FAdd(FMul(p, p), Score(group, Tail(cs)))
        Term(group) ==
            IF Len(group) = 0 THEN Whole(0)
            ELSE FSub(Whole(1), Score(group, classes))
    IN  FAdd(Term(groups[1]), Term(groups[2]))

Gini(groups, classes) ==
    LET total == Len(groups[1]) + Len(groups[2])
        RECURSIVE Score(_, _)
        Score(group, cs) ==
            IF cs = <<>> THEN Whole(0)
            ELSE LET p == Frac(CountEq(group, Head(cs)), Len(group))
                 IN  FAdd(FMul(p, p), Score(group, Tail(cs)))
        Term(group) ==
            IF Len(group) = 0 THEN Whole(0)
            ELSE FMul(FSub(Whole(1), Score(group, classes)),
                      Frac(Len(group), total))
    IN  FAdd(Term(groups[1]), Term(groups[2]))

\* thresholds = (unique_values[:-1] + unique_values[1:]) / 2
ThresholdsNoHalving(u) == [i \in 1..(Len(u) - 1) |-> Whole(u[i] + u[i + 1])]

ThresholdsLower(u) == [i \in 1..(Len(u) - 1) |-> Whole(u[i])]

Thresholds(u) == [i \in 1..(Len(u) - 1) |-> Frac(u[i] + u[i + 1], 2)]

\* The loop over the thresholds: st is (ginis, best_threshold, best_gini).
BestUpdateLeq(st, threshold, gini_score) ==
    [ginis |-> Append(st.ginis, gini_score),
     best_threshold |-> IF FLeq(gini_score, st.best_gini)
                        THEN <<threshold>> ELSE st.best_threshold,
     best_gini |-> IF FLeq(gini_score, st.best_gini)
                   THEN gini_score ELSE st.best_gini]

BestUpdate(st, threshold, gini_score) ==
    [ginis |-> Append(st.ginis, gini_score),
     best_threshold |-> IF FLess(gini_score, st.best_gini)
                        THEN <<threshold>> ELSE st.best_threshold,
     best_gini |-> IF FLess(gini_score, st.best_gini)
                   THEN gini_score ELSE st.best_gini]

FindBestSplit(feature_vector, target_vector) ==
    LET sorted_indices == ArgSort(feature_vector)
        fv == [i \in 1..Len(feature_vector) |-> feature_vector[sorted_indices[i]]]
        tv == [i \in 1..Len(target_vector) |-> target_vector[sorted_indices[i]]]
        unique_values == Unique(fv)
        thresholds == Thresholds(unique_values)
        classes == Unique(tv)
        RECURSIVE Loop(_, _)
        Loop(i, st) ==
            IF i > Len(thresholds) THEN st
            ELSE LET threshold == thresholds[i]
                     left_group == Take(tv, LAMBDA k : FLeq(Whole(fv[k]), threshold))
                     right_group == Take(tv, LAMBDA k : FLess(threshold, Whole(fv[k])))
                     gini_score == Gini(<<left_group, right_group>>, classes)
                 IN  Loop(i + 1, BestUpdate(st, threshold, gini_score))
        final == Loop(1, [ginis |-> <<>>, best_threshold |-> <<>>, best_gini |-> Inf])
    IN  IF Len(unique_values) = 1
        THEN [thresholds |-> <<>>, ginis |-> <<>>,
              best_threshold |-> <<>>, best_gini |-> <<>>]
        ELSE [thresholds |-> thresholds, ginis |-> final.ginis,
              best_threshold |-> final.best_threshold,
              best_gini |-> <<final.best_gini>>]

-----------------------------------------------------------------------------
(* DecisionTree: the node dicts. *)

Labels == {0, 1}

\* {} : a dict with no key.  A key that is present holds <<value>>.
EmptyDict ==
    [type |-> <<>>, class |-> <<>>, feature_split |-> <<>>, threshold |-> <<>>,
     categories_split |-> <<>>, left_child |-> <<>>, right_child |-> <<>>]

Has(node, key) == node[key] # <<>>
Get(node, key) == node[key][1]

\* The dict reached from the root by following the child keys of path.
RECURSIVE NodeAt(_, _)
NodeAt(node, path) ==
    IF path = <<>> THEN node ELSE NodeAt(Get(node, Head(path)), Tail(path))

\* The root after the dict at path has been replaced by new (the dicts are
\* shared by reference in the code: a write to a child is seen from the root).
SetAtAliased(node, path, new) ==
    LET RECURSIVE S(_, _)
        S(n, p) ==
            IF p = <<>> THEN new
            ELSE IF Len(p) = 1 /\ Head(p) = "right_child"
            THEN [n EXCEPT !.left_child = <<new>>, !.right_child = <<new>>]
            ELSE [n EXCEPT ![Head(p)] = <<S(Get(n, Head(p)), Tail(p))>>]
    IN  S(node, path)

SetAt(node, path, new) ==
    LET RECURSIVE S(_, _)
        S(n, p) ==
            IF p = <<>> THEN new
            ELSE [n EXCEPT ![Head(p)] = <<S(Get(n, Head(p)), Tail(p))>>]
    IN  S(node, path)

-----------------------------------------------------------------------------
(* DecisionTree._fit_node *)

Column(sub_X, feature) == [i \in 1..Len(sub_X) |-> sub_X[i][feature + 1]]

\* The keys of Counter(a): the distinct values in order of first occurrence.
RECURSIVE FirstOccurrences(_)
FirstOccurrences(a) ==
    IF a = <<>> THEN <<>>
    ELSE LET front == FirstOccurrences(SubSeq(a, 1, Len(a) - 1))
             last == a[Len(a)]
         IN  IF last \in Range(front) THEN front ELSE Append(front, last)

\* ratio[key] = clicks.get(key, 0) / count
Ratio(column, sub_y, key) ==
    Frac(Cardinality({i \in 1..Len(column) : column[i] = key /\ sub_y[i] = 1}),
         CountEq(column, key))

\* sorted(keys, key=...): ascending by rate (rates[i] that of keys[i]), equal
\* rates in the order of keys.
SortedByRawValue(keys, rates) ==
    LET RECURSIVE S(_)
        S(left) ==
            IF left = {} THEN <<>>
            ELSE LET i == CHOOSE k \in left :
                            \A z \in left :
                                \/ FLess(rates[k], rates[z])
                                \/ /\ ~FLess(rates[z], rates[k])
                                   /\ keys[k] <= keys[z]
                 IN  <<keys[i]>> \o S(left \ {i})
    IN  S(1..Len(keys))

SortedBy(keys, rates) ==
    LET RECURSIVE S(_)
        S(left) ==
            IF left = {} THEN <<>>
            ELSE LET i == CHOOSE k \in left :
                            \A z \in left :
                                \/ FLess(rates[k], rates[z])
                                \/ /\ ~FLess(rates[z], rates[k])
                                   /\ k <= z
                 IN  <<keys[i]>> \o S(left \ {i})
    IN  S(1..Len(keys))

\* sorted_categories (lines 143-148); categories_map sends sorted_categories[i]
\* to i - 1.
SortedCategories(column, sub_y) ==
    LET keys == FirstOccurrences(column)
    IN  SortedBy(keys, [i \in 1..Len(keys) |-> Ratio(column, sub_y, keys[i])])

IndexOf(s, v) == CHOOSE i \in 1..Len(s) : s[i] = v

\* The vector find_best_split is given for a feature (lines 140-152).
FeatureVector(types, sub_X, sub_y, feature) ==
    LET column == Column(sub_X, feature)
    IN  IF types[feature + 1] = "real" THEN column
        ELSE LET sorted_categories == SortedCategories(column, sub_y)
             IN  [i \in 1..Len(column) |-> IndexOf(sorted_categories, column[i]) - 1]

\* split = feature_vector < threshold
SplitMask(feature_vector, threshold) ==
    [i \in 1..Len(feature_vector) |-> FLess(Whole(feature_vector[i]), threshold)]

\* threshold_best of a feature that has just become the best one (lines 166-171).
ThresholdBestRanks(types, sub_X, sub_y, feature, threshold) ==
    IF types[feature + 1] = "real" THEN threshold
    ELSE LET sorted_categories == SortedCategories(Column(sub_X, feature), sub_y)
         IN  Take([i \in 1..Len(sorted_categories) |-> i - 1],
                  LAMBDA i : FLess(Whole(i - 1), threshold))

ThresholdBest(types, sub_X, sub_y, feature, threshold) ==
    IF types[feature + 1] = "real" THEN threshold
    ELSE LET sorted_categories == SortedCategories(Column(sub_X, feature), sub_y)
         IN  Take(sorted_categories, LAMBDA i : FLess(Whole(i - 1), threshold))

\* The loop over the features (lines 135-171): best is (feature_best,
\* threshold_best, gini_best, split), every one None before the first usable
\* feature; proxy and boundary are the feature_vector and the threshold that
\* split was computed from.
NoBest == [feature_best |-> <<>>, threshold_best |-> <<>>, gini_best |-> <<>>,
           split |-> <<>>, proxy |-> <<>>, boundary |-> <<>>]

\* One pass of the loop body for a feature whose feature_vector is given and
\* for which find_best_split has returned found (lines 156-171).
ConsiderFeature(types, sub_X, sub_y, feature, feature_vector, found, best) ==
    IF Cardinality(Range(feature_vector)) <= 1 THEN best
    ELSE IF best.gini_best = <<>> \/ FLess(found.best_gini[1], best.gini_best[1])
    THEN [feature_best |-> <<feature>>,
          threshold_best |-> <<ThresholdBest(types, sub_X, sub_y, feature,
                                              found.best_threshold[1])>>,
          gini_best |-> found.best_gini,
          split |-> <<SplitMask(feature_vector, found.best_threshold[1])>>,
          proxy |-> <<feature_vector>>,
          boundary |-> found.best_threshold]
    ELSE best

SplitFeature(types, sub_X, sub_y, feature, feature_vector, best) ==
    ConsiderFeature(types, sub_X, sub_y, feature, feature_vector,
                    FindBestSplit(feature_vector, sub_y), best)

RECURSIVE SearchFeatures(_, _, _, _, _)
SearchFeatures(types, sub_X, sub_y, feature, best) ==
    IF feature >= Len(sub_X[1]) THEN best
    ELSE SearchFeatures(types, sub_X, sub_y, feature + 1,
                        SplitFeature(types, sub_X, sub_y, feature,
                                     FeatureVector(types, sub_X, sub_y, feature),
                                     best))

\* Counter(sub_y).most_common(1)[0][0]: the most frequent label, the one seen
\* first among equally frequent ones.
MostCommon(sub_y) ==
    LET keys == FirstOccurrences(sub_y)
        i == CHOOSE k \in 1..Len(keys) :
                \A z \in 1..Len(keys) :
                    \/ CountEq(sub_y, keys[k]) > CountEq(sub_y, keys[z])
                    \/ CountEq(sub_y, keys[k]) = CountEq(sub_y, keys[z]) /\ k <= z
    IN  keys[i]

\* The stopping criterion of line 130, on a non-empty subsample.
StopCriterionAnd(sub_X, sub_y) ==
    (\A i \in 1..Len(sub_y) : sub_y[i] = sub_y[1]) /\ Len(sub_X) <= 1

StopCriterion(sub_X, sub_y) ==
    (\A i \in 1..Len(sub_y) : sub_y[i] = sub_y[1]) \/ Len(sub_X) <= 1

\* The node as lines 173-188 leave it, given the outcome best of the loop over
\* the features, and the mask of the split (None when the node is terminal)
\* with the vector and the threshold it was computed from.
FillNode(types, sub_y, node, best) ==
    IF best.feature_best = <<>>
    THEN [node |-> [node EXCEPT !.type = <<"terminal">>,
                                !.class = <<MostCommon(sub_y)>>],
          split |-> <<>>, proxy |-> <<>>, boundary |-> <<>>]
    ELSE [node |-> [node EXCEPT
                        !.type = <<"nonterminal">>,
                        !.feature_split = best.feature_best,
                        !.threshold =
                            IF types[best.feature_best[1] + 1] = "real"
                            THEN best.threshold_best ELSE @,
                        !.categories_split =
                            IF types[best.feature_best[1] + 1] = "real"
                            THEN @ ELSE best.threshold_best,
                        !.left_child = <<EmptyDict>>,
                        !.right_child = <<EmptyDict>>],
          split |-> best.split, proxy |-> best.proxy, boundary |-> best.boundary]

\* One execution of the body of _fit_node on a non-empty subsample, up to the
\* recursive calls.
FitNodeBody(types, sub_X, sub_y, node) ==
    IF StopCriterion(sub_X, sub_y)
    THEN [node |-> [node EXCEPT !.type = <<"terminal">>, !.class = <<sub_y[1]>>],
          split |-> <<>>, proxy |-> <<>>, boundary |-> <<>>]
    ELSE FillNode(types, sub_y, node, SearchFeatures(types, sub_X, sub_y, 0, NoBest))

\* sub_X[split], sub_y[split] and sub_X[~split], sub_y[~split]
LeftPart(a, split) == Take(a, LAMBDA i : split[i])
RightPart(a, split) == Take(a, LAMBDA i : ~split[i])

\* The dict node after the whole call _fit_node(sub_X, sub_y, node), recursive
\* calls included (lines 130-190), on a non-empty subsample.
RECURSIVE FitTree(_, _, _, _)
FitTree(types, sub_X, sub_y, node) ==
    LET body == FitNodeBody(types, sub_X, sub_y, node)
    IN  IF body.split = <<>> THEN body.node
        ELSE [body.node EXCEPT
                !.left_child = <<FitTree(types, LeftPart(sub_X, body.split[1]),
                                         LeftPart(sub_y, body.split[1]), EmptyDict)>>,
                !.right_child = <<FitTree(types, RightPart(sub_X, body.split[1]),
                                          RightPart(sub_y, body.split[1]), EmptyDict)>>]

-----------------------------------------------------------------------------
(* DecisionTree._predict_node, predict, _get_depth, get_depth *)

\* The child a nonterminal node sends the row x to (lines 213-222).
Route(types, x, node) ==
    LET feature == Get(node, "feature_split")
    IN  IF types[feature + 1] = "real"
        THEN IF FLess(Whole(x[feature + 1]), Get(node, "threshold"))
             THEN "left_child" ELSE "right_child"
        ELSE IF x[feature + 1] \in Range(Get(node, "categories_split"))
             THEN "left_child" ELSE "right_child"

\* <<class>>, or <<>> when the lookup node["type"] raises KeyError.
PredictNodeDefault(types, x, node) ==
    LET RECURSIVE P(_)
        P(n) == IF ~Has(n, "type") THEN <<0>>
                ELSE IF Get(n, "type") = "terminal" THEN n.class
                ELSE P(Get(n, Route(types, x, n)))
    IN  P(node)

PredictNode(types, x, node) ==
    LET RECURSIVE P(_)
        P(n) == IF ~Has(n, "type") THEN <<>>
                ELSE IF Get(n, "type") = "terminal" THEN n.class
                ELSE P(Get(n, Route(types, x, n)))
    IN  P(node)

\* What a call left behind: its return value, or the exception it raised.
NoCall == [called |-> FALSE, op |-> "", raised |-> "", value |-> <<>>]
Returned(op, value) == [called |-> TRUE, op |-> op, raised |-> "", value |-> value]
Raised(op, error) == [called |-> TRUE, op |-> op, raised |-> error, value |-> <<>>]

\* predict(X): the predictions in row order, or the KeyError of the first row.
PredictAll(types, X, root) ==
    LET predicted == [i \in 1..Len(X) |-> PredictNode(types, X[i], root)]
    IN  IF \E i \in 1..Len(X) : predicted[i] = <<>>
        THEN Raised("predict", "KeyError")
        ELSE Returned("predict", [i \in 1..Len(X) |-> predicted[i][1]])

\* <<depth>>, or <<>> when a lookup of node["type"] raises KeyError.
RECURSIVE Depth(_)
Depth(node) ==
    IF ~Has(node, "type") THEN <<>>
    ELSE IF Get(node, "type") = "terminal" THEN <<0>>
    ELSE LET left_depth == Depth(Get(node, "left_child"))
             right_depth == Depth(Get(node, "right_child"))
         IN  IF left_depth = <<>> \/ right_depth = <<>> THEN <<>>
             ELSE <<1 + (IF left_depth[1] >= right_depth[1]
                         THEN left_depth[1] ELSE right_depth[1])>>

-----------------------------------------------------------------------------
(* Direct calls of find_best_split (tests.py, lines 6-10). *)

SeqsUpTo(S, n) == UNION {[1..k -> S] : k \in 1..n}

\* tests.py: feature_vector = [2, 3, 10], target_vector = [0, 1, 0]
TestFeatureVector == <<2, 3, 10>>
TestTargetVector == <<0, 1, 0>>

SplitInputs ==
    {[feature_vector |-> f, target_vector |-> t] :
        <<f, t>> \in {p \in SeqsUpTo(0..SplitMaxVal, SplitMaxLen)
                             \X SeqsUpTo(Labels, SplitMaxLen) :
                        Len(p[1]) = Len(p[2])}}
    \cup {[feature_vector |-> TestFeatureVector, target_vector |-> TestTargetVector]}

InitSplit ==
    /\ feature_types = <<>>
    /\ tree = EmptyDict
    /\ pc = "idle"
    /\ args = <<>>
    /\ stack = <<>>
    /\ ret = NoCall
    /\ fbs_in \in SplitInputs
    /\ fbs_out = <<>>

CallFindBestSplit ==
    /\ fbs_out = <<>>
    /\ fbs_out' = <<FindBestSplit(fbs_in.feature_vector, fbs_in.target_vector)>>
    /\ UNCHANGED <<feature_types, tree, pc, args, stack, ret, fbs_in>>

NextSplit == CallFindBestSplit

SpecSplit == InitSplit /\ [][NextSplit]_vars

-----------------------------------------------------------------------------
(* A DecisionTree instance and its callers. *)

\* The values a real feature and a categorical feature take in the matrices
\* of the model.
RealValues == {0, 1}
Categories == {10, 20, 30}

\* The instance under study has a real and a categorical feature (__init__
\* accepts exactly the lists over {"real", "categorical"}).
FeatureTypeChoices == {<<"real", "categorical">>}

RowsOf(types) ==
    {x \in [1..Len(types) -> RealValues \cup Categories] :
        \A f \in 1..Len(types) :
            x[f] \in (IF types[f] = "real" THEN RealValues ELSE Categories)}

\* The (X, y) of at most n rows.
TrainingSets(types, n) ==
    {[X |-> [i \in 1..Len(d) |-> d[i][1]], y |-> [i \in 1..Len(d) |-> d[i][2]]] :
        d \in UNION {[1..k -> RowsOf(types) \X Labels] : k \in 0..n}}

Queries(types, n) == UNION {[1..k -> RowsOf(types)] : k \in 0..n}

Init ==
    /\ feature_types \in FeatureTypeChoices
    /\ tree = EmptyDict
    /\ pc = "idle"
    /\ args = <<>>
    /\ stack = <<>>
    /\ ret = NoCall
    /\ fbs_in = <<>>
    /\ fbs_out = <<>>

\* fit(X, y), line 227: the call of _fit_node on the root.
Fit(X, y) ==
    /\ pc = "idle"
    /\ pc' = "fit"
    /\ args' = <<[X |-> X, y |-> y]>>
    /\ stack' = <<[sub_X |-> X, sub_y |-> y, path |-> <<>>]>>
    /\ ret' = NoCall
    /\ UNCHANGED <<feature_types, tree, fbs_in, fbs_out>>

\* The innermost pending _fit_node call runs its body; its two recursive calls,
\* the left one first, are then the innermost pending ones.  sub_y[0] of an
\* empty subsample raises IndexError, which ends the fit call.
FitNode ==
    /\ pc = "fit"
    /\ stack # <<>>
    /\ LET frame == Head(stack)
       IN  IF frame.sub_y = <<>>
           THEN /\ pc' = "idle"
                /\ args' = <<>>
                /\ stack' = <<>>
                /\ ret' = Raised("fit", "IndexError")
                /\ UNCHANGED tree
           ELSE \E body \in {FitNodeBody(feature_types, frame.sub_X, frame.sub_y,
                                        NodeAt(tree, frame.path))} :
                LET calls ==
                        IF body.split = <<>> THEN <<>>
                        ELSE <<[sub_X |-> LeftPart(frame.sub_X, body.split[1]),
                                sub_y |-> LeftPart(frame.sub_y, body.split[1]),
                                path |-> Append(frame.path, "left_child")],
                               [sub_X |-> RightPart(frame.sub_X, body.split[1]),
                                sub_y |-> RightPart(frame.sub_y, body.split[1]),
                                path |-> Append(frame.path, "right_child")]>>
                IN  /\ tree' = SetAt(tree, frame.path, body.node)
                    /\ stack' = calls \o Tail(stack)
                    /\ UNCHANGED <<pc, args, ret>>
    /\ UNCHANGED <<feature_types, fbs_in, fbs_out>>

\* The root call of _fit_node has returned: fit returns None.
FitReturn ==
    /\ pc = "fit"
    /\ stack = <<>>
    /\ pc' = "idle"
    /\ args' = <<>>
    /\ ret' = Returned("fit", <<>>)
    /\ UNCHANGED <<feature_types, tree, stack, fbs_in, fbs_out>>

\* predict(X)
PredictCaching(X) ==
    /\ pc = "idle"
    /\ ret' = PredictAll(feature_types, X, tree)
    /\ tree' = IF ret'.raised = "" /\ ret'.value # <<>>
               THEN [tree EXCEPT !.class = <<ret'.value[Len(ret'.value)]>>]
               ELSE tree
    /\ UNCHANGED <<feature_types, pc, args, stack, fbs_in, fbs_out>>

Predict(X) ==
    /\ pc = "idle"
    /\ ret' = PredictAll(feature_types, X, tree)
    /\ UNCHANGED <<feature_types, tree, pc, args, stack, fbs_in, fbs_out>>

\* get_depth()
GetDepth ==
    /\ pc = "idle"
    /\ ret' = (LET depth == Depth(tree)
               IN  IF depth = <<>> THEN Raised("get_depth", "KeyError")
                   ELSE Returned("get_depth", depth))
    /\ UNCHANGED <<feature_types, tree, pc, args, stack, fbs_in, fbs_out>>

\* A caller that fits an instance once.
FitFresh ==
    /\ pc = "idle"
    /\ tree = EmptyDict
    /\ \E d \in TrainingSets(feature_types, MaxRows) : Fit(d.X, d.y)

PredictAny ==
    /\ pc = "idle"
    /\ \E X \in Queries(feature_types, MaxQueryRows) : Predict(X)

Next == FitFresh \/ FitNode \/ FitReturn \/ PredictAny \/ GetDepth

Spec == Init /\ [][Next]_vars

\* A caller that fits an instance with a single feature again and again.
RefitMaxRows == 2

RefitFeatureTypeChoices == {<<"real">>, <<"categorical">>}

InitRefit ==
    /\ feature_types \in RefitFeatureTypeChoices
    /\ tree = EmptyDict
    /\ pc = "idle"
    /\ args = <<>>
    /\ stack = <<>>
    /\ ret = NoCall
    /\ fbs_in = <<>>
    /\ fbs_out = <<>>

FitAgain ==
    /\ pc = "idle"
    /\ \E d \in TrainingSets(feature_types, RefitMaxRows) : Fit(d.X, d.y)

NextRefit == FitAgain \/ FitNode \/ FitReturn \/ PredictAny \/ GetDepth

SpecRefit == InitRefit /\ [][NextRefit]_vars

-----------------------------------------------------------------------------
(* Properties of find_best_split, under SpecSplit. *)

SplitCalled == fbs_out # <<>>
SplitResult == fbs_out[1]

\* The distinct values of the feature vector passed, and the i-th smallest.
DistinctValues == Range(fbs_in.feature_vector)
NthDistinct(i) ==
    CHOOSE v \in DistinctValues : Cardinality({w \in DistinctValues : w < v}) = i - 1

\* H(group) = 1 - sum of p_c^2 over the classes c observed in the group.
GroupImpurity(group) ==
    LET Square(c) == FMul(Frac(CountEq(group, c), Len(group)),
                          Frac(CountEq(group, c), Len(group)))
        RECURSIVE SumOver(_)
        SumOver(S) ==
            IF S = {} THEN Whole(0)
            ELSE LET c == CHOOSE x \in S : TRUE
                 IN  FAdd(Square(c), SumOver(S \ {c}))
    IN  FSub(Whole(1), SumOver(Range(group)))

\* (|left|/|total|) * H(left) + (|right|/|total|) * H(right) for the split
\* value <= threshold / value > threshold of the vectors passed.
WeightedImpurity(threshold) ==
    LET f == fbs_in.feature_vector
        t == fbs_in.target_vector
        left == Take(t, LAMBDA i : FLeq(Whole(f[i]), threshold))
        right == Take(t, LAMBDA i : ~FLeq(Whole(f[i]), threshold))
        Part(group) ==
            IF group = <<>> THEN Whole(0)
            ELSE FMul(Frac(Len(group), Len(t)), GroupImpurity(group))
    IN  FAdd(Part(left), Part(right))

IsTestCall ==
    /\ SplitCalled
    /\ fbs_in.feature_vector = TestFeatureVector
    /\ fbs_in.target_vector = TestTargetVector

\* C4 as stated: on [2, 3, 10] / [0, 1, 0] the thresholds are [2.5, 6.5], the
\* best threshold is 6.5 and the best impurity is 1/3.
C4_AsStated ==
    IsTestCall =>
        /\ SplitResult.thresholds = <<Frac(5, 2), Frac(13, 2)>>
        /\ SplitResult.best_threshold = <<Frac(13, 2)>>
        /\ SplitResult.best_gini = <<Frac(1, 3)>>

\* C4, amended: on [2, 3, 10] / [0, 1, 0] the thresholds are [2.5, 6.5], both
\* of impurity 1/3, and the best threshold is the first of them, 2.5, with
\* best impurity 1/3.
C4_TestCallReturns ==
    IsTestCall =>
        /\ SplitResult.thresholds = <<Frac(5, 2), Frac(13, 2)>>
        /\ SplitResult.ginis = <<Frac(1, 3), Frac(1, 3)>>
        /\ SplitResult.best_threshold = <<Frac(5, 2)>>
        /\ SplitResult.best_gini = <<Frac(1, 3)>>

C4_Witness == IsTestCall /\ Len(SplitResult.ginis) = 2

-----------------------------------------------------------------------------
(* Properties of a DecisionTree instance that is fitted once, under Spec. *)

TrainX == args[1].X
TrainY == args[1].y

\* Every _fit_node call of the fit in progress has returned.
FitComplete == pc = "fit" /\ stack = <<>>

\* Rows with identical feature vectors carry identical labels.
Consistent(X, y) == \A i, j \in 1..Len(X) : X[i] = X[j] => y[i] = y[j]

\* The child keys predict follows for the row x, down to a terminal node or to
\* a node that _fit_node has not filled yet.
DescentPath(x, root) ==
    LET RECURSIVE D(_)
        D(n) == IF ~Has(n, "type") \/ Get(n, "type") = "terminal" THEN <<>>
                ELSE <<Route(feature_types, x, n)>>
                        \o D(Get(n, Route(feature_types, x, n)))
    IN  D(root)

C5_ImmediateTerminalRoot ==
    (pc = "fit" /\ TrainY # <<>>
        /\ (Len(TrainY) = 1 \/ \A i \in 1..Len(TrainY) : TrainY[i] = TrainY[1])) =>
        \/ /\ stack = <<[sub_X |-> TrainX, sub_y |-> TrainY, path |-> <<>>]>>
           /\ tree = EmptyDict
        \/ /\ stack = <<>>
           /\ tree = [EmptyDict EXCEPT !.type = <<"terminal">>,
                                       !.class = <<TrainY[1]>>]
           /\ Depth(tree) = <<0>>
           /\ \A X \in Queries(feature_types, MaxQueryRows) :
                PredictAll(feature_types, X, tree)
                    = Returned("predict", [i \in 1..Len(X) |-> TrainY[1]])

\* A terminal root built from three rows of one class, with different features.
C5_Witness ==
    /\ FitComplete
    /\ Len(TrainY) = 3
    /\ Cardinality(Range(TrainY)) = 1
    /\ Cardinality(Range(TrainX)) = 3
    /\ Get(tree, "type") = "terminal"

\* C7 as stated: predict on an instance whose root is still {} raises, whatever
\* the matrix.
C7_AsStated ==
    (pc = "idle" /\ tree = EmptyDict /\ ret.called /\ ret.op = "predict") =>
        ret.raised # ""

\* C7, amended: predict(X) on an instance whose root is still {} raises
\* KeyError and returns nothing when X has at least one row, and returns the
\* empty prediction vector when X has no row.
C7_UnfittedPredict ==
    [][(pc = "idle" /\ tree = EmptyDict) =>
        \A X \in Queries(feature_types, MaxQueryRows) :
            Predict(X) =>
                IF Len(X) >= 1
                THEN ret' = Raised("predict", "KeyError")
                ELSE ret' = Returned("predict", <<>>)]_vars

C7_Witness ==
    /\ pc = "idle"
    /\ tree = EmptyDict
    /\ ret = Raised("predict", "KeyError")

\* C8: on a fitted tree a predict or get_depth call leaves every node as it
\* was, so that predict returns afterwards what it returned before, for every
\* row.
C8_ReadOnlyQueries ==
    [][(pc = "idle" /\ pc' = "idle" /\ Has(tree, "type")) =>
        /\ tree' = tree
        /\ feature_types' = feature_types
        /\ \A x \in RowsOf(feature_types) :
            PredictNode(feature_types', x, tree') = PredictNode(feature_types, x, tree)]_vars

\* A prediction has been returned by a tree that has an internal root.
C8_Witness ==
    /\ pc = "idle"
    /\ Has(tree, "type")
    /\ Get(tree, "type") = "nonterminal"
    /\ ret.called /\ ret.op = "predict" /\ ret.raised = ""
    /\ Len(ret.value) >= 1

\* An upper bound on the _fit_node bodies still to run: a pending call on m
\* rows stands for at most 2m - 1 of them.
RECURSIVE Measure(_)
Measure(frames) ==
    IF frames = <<>> THEN 0
    ELSE 2 * Len(Head(frames).sub_y) - 1 + Measure(Tail(frames))

\* C9: in every _fit_node call of a fit on n >= 1 rows the subsample is
\* non-empty; where a split is chosen the mask "proxy < boundary" is the
\* partition "proxy <= boundary" and has rows on both sides, so the two
\* recursive calls get non-empty, strictly smaller subsamples; every body run
\* lowers the bound Measure on the runs left (fit terminates), and the depth
\* of the finished tree is at most n - 1.
C9_Step ==
    /\ (pc = "fit" /\ stack # <<>> /\ TrainY # <<>>) =>
        LET frame == Head(stack)
            n == Len(frame.sub_y)
            body == FitNodeBody(feature_types, frame.sub_X, frame.sub_y,
                                NodeAt(tree, frame.path))
        IN  /\ n >= 1
            /\ Len(frame.sub_X) = n
            /\ pc' = "fit"
            /\ Measure(stack') < Measure(stack)
            /\ body.split # <<>> =>
                LET mask == body.split[1]
                    proxy == body.proxy[1]
                IN  /\ mask = [i \in 1..n |-> FLeq(Whole(proxy[i]), body.boundary[1])]
                    /\ \E i \in 1..n : mask[i]
                    /\ \E i \in 1..n : ~mask[i]
                    /\ Len(stack') = Len(stack) + 1
                    /\ stack'[1].sub_X = LeftPart(frame.sub_X, mask)
                    /\ stack'[2].sub_X = RightPart(frame.sub_X, mask)
                    /\ \A k \in 1..2 :
                        /\ Len(stack'[k].sub_y) = Len(stack'[k].sub_X)
                        /\ Len(stack'[k].sub_y) >= 1
                        /\ Len(stack'[k].sub_y) < n
    /\ (pc = "fit" /\ stack = <<>> /\ TrainY # <<>>) =>
        /\ pc' = "idle"
        /\ Depth(tree) # <<>>
        /\ Depth(tree)[1] <= Len(TrainY) - 1

-----------------------------------------------------------------------------
(* Renaming the categories, under Spec. *)

\* The bijective renamings of the raw category values.
Renamings ==
    {r \in [Categories -> Categories] : \A a, b \in Categories : r[a] = r[b] => a = b}

RenameRow(x, r) ==
    [f \in 1..Len(x) |-> IF feature_types[f] = "categorical" THEN r[x[f]] ELSE x[f]]

RenameMatrix(X, r) == [i \in 1..Len(X) |-> RenameRow(X[i], r)]

\* The tree with r applied to every stored category list.
RECURSIVE RenameTree(_, _)
RenameTree(node, r) ==
    [node EXCEPT
        !.categories_split =
            IF @ = <<>> THEN <<>> ELSE <<[i \in 1..Len(@[1]) |-> r[@[1][i]]]>>,
        !.left_child = IF @ = <<>> THEN <<>> ELSE <<RenameTree(@[1], r)>>,
        !.right_child = IF @ = <<>> THEN <<>> ELSE <<RenameTree(@[1], r)>>]

\* C6: fitting a fresh instance on the training matrix with its categories
\* renamed by r builds the tree that fit has built here with r
\* applied to its stored category lists (same shape, same split features, same
\* thresholds and classes), and that tree predicts for every renamed row what
\* this tree predicts for the row.
C6_RenamingCommutes ==
    (FitComplete /\ TrainY # <<>>) =>
        \A r \in Renamings :
            \A renamed \in {FitTree(feature_types, RenameMatrix(TrainX, r), TrainY,
                                     EmptyDict)} :
                /\ renamed = RenameTree(tree, r)
                /\ \A x \in RowsOf(feature_types) :
                    PredictAll(feature_types, <<RenameRow(x, r)>>, renamed)
                        = PredictAll(feature_types, <<x>>, tree)

\* A finished tree whose root stores two categories of equal positive-class
\* rate, in an order that is not the order of their raw values.
C6_Witness ==
    /\ FitComplete
    /\ Has(tree, "categories_split")
    /\ Len(Get(tree, "categories_split")) = 2
    /\ Get(tree, "categories_split")[1] > Get(tree, "categories_split")[2]
    /\ LET column == Column(TrainX, Get(tree, "feature_split"))
       IN  Ratio(column, TrainY, Get(tree, "categories_split")[1])
             = Ratio(column, TrainY, Get(tree, "categories_split")[2])

-----------------------------------------------------------------------------
(* Mutation of the nodes, under SpecRefit. *)

\* The subtree under node is fully built.
RECURSIVE Built(_)
Built(node) ==
    /\ Has(node, "type")
    /\ Get(node, "type") = "nonterminal" =>
        /\ Has(node, "left_child") /\ Built(Get(node, "left_child"))
        /\ Has(node, "right_child") /\ Built(Get(node, "right_child"))

\* Every node of old whose subtree is fully built is the same dict in new.
RECURSIVE Preserved(_, _)
Preserved(old, new) ==
    IF Built(old) THEN new = old
    ELSE \A key \in {"left_child", "right_child"} :
            Has(old, key) =>
                (Has(new, key) /\ Preserved(Get(old, key), Get(new, key)))

\* The step is the body of the _fit_node call on the root.
RootBody == pc = "fit" /\ stack # <<>> /\ Head(stack).path = <<>>

\* The keys the body of _fit_node has written into a node it left as node.
WrittenKeys(node) ==
    IF Get(node, "type") = "terminal" THEN {"type", "class"}
    ELSE {"type", "feature_split", "left_child", "right_child",
          IF feature_types[Get(node, "feature_split") + 1] = "real"
          THEN "threshold" ELSE "categories_split"}

\* C10 as stated: over any sequence of fit, predict and get_depth calls, no step
\* changes a node whose subtree is fully built.
C10_AsStated == [][Preserved(tree, tree')]_vars

\* C10, amended: the root is {} until the first fit call fills it in place;
\* within one fit call no node is changed once the subtree under it is fully
\* built, and predict and get_depth change no node; every later fit call on
\* a non-empty training set writes its keys into the same root dict, fully
\* built or not, keeping the keys it does not write.
C10_Step ==
    /\ ~RootBody => Preserved(tree, tree')
    /\ (tree = EmptyDict /\ tree' # tree) => RootBody
    /\ (RootBody /\ Head(stack).sub_y # <<>>) =>
        /\ Has(tree', "type")
        /\ \A key \in DOMAIN tree :
            key \notin WrittenKeys(tree') => tree'[key] = tree[key]

C10_MutationOnlyByFit == [][C10_Step]_vars

\* A later fit has made a terminal node of a root that keeps the children an
\* earlier fit gave it.
C10_Witness ==
    /\ pc = "idle"
    /\ Has(tree, "type")
    /\ Get(tree, "type") = "terminal"
    /\ Has(tree, "left_child")
    /\ Built(Get(tree, "left_child"))

====
